---- MODULE Spec2Model ----
(***************************************************************************)
(* A model of src/Solution.py: the apartment-rental store (six tables and  *)
(* the views defined over them in create_tables) and the operations that   *)
(* read and write it.  Every table is the set of its rows; every table has *)
(* a key, so no table can hold the same row twice.  A date is a day        *)
(* number.  AVG and "/" are computed exactly, as fractions <<n, d>>.       *)
(***************************************************************************)
EXTENDS Integers, FiniteSets, Sequences, TLC

VARIABLES Owner, Apartment, Customer, CustomerReservations, CustomerReviews,
          ApartmentOwners, lastOp, pc, call, pending, result

tables == <<Owner, Apartment, Customer, CustomerReservations, CustomerReviews,
            ApartmentOwners>>
conc == <<pc, call, pending, result>>
vars == <<Owner, Apartment, Customer, CustomerReservations, CustomerReviews,
          ApartmentOwners, lastOp, pc, call, pending, result>>

(***************************************************************************)
(* Bounds of the model.  MaxCustomer and MaxApartment bound the ids of the *)
(* store specification Spec; MaxGuest and MaxDate bound the customers and  *)
(* the days of the reservation specifications SpecReserve and SpecConc;    *)
(* MaxReviewer bounds the customers of SpecRecommend, MaxTenant those of    *)
(* SpecOwners and SpecUpdate.                                              *)
(***************************************************************************)
MaxCustomer == 1
MaxApartment == 1
MaxGuest == 2
MaxDate == 4
MaxReviewer == 2
MaxTenant == 1

(* CHECK (rating BETWEEN 1 AND 10) *)
MinRating == 1
MaxRating == 10

OwnerIds == {1}
ApartmentIds == 1..MaxApartment
CustomerIds == 1..MaxCustomer
StoreDates == {1, 2}
GuestIds == 1..MaxGuest
RoomIds == {1, 2}
Dates == 1..MaxDate
Prices == {0, 1}
Ratings == {MinRating, MaxRating, MaxRating + 1}
Names == {"n"}
Addresses == {"s"}
Cities == {"A", "B"}
Countries == {"X"}
Sizes == {1}
Texts == {"t"}

(***************************************************************************)
(* Utility.ReturnValue                                                     *)
(***************************************************************************)
OK == "OK"
NOT_EXISTS == "NOT_EXISTS"
ALREADY_EXISTS == "ALREADY_EXISTS"
ERROR == "ERROR"
BAD_PARAMS == "BAD_PARAMS"

NoOp == [op |-> "none", ret |-> OK]

Returned(op, ret) == lastOp' = [op |-> op, ret |-> ret]

(***************************************************************************)
(* Rows                                                                    *)
(***************************************************************************)
OwnerRow(o, n) == [owner_id |-> o, owner_name |-> n]

ApartmentRow(a, ad, ci, co, sz) ==
  [apartment_id |-> a, address |-> ad, city |-> ci, country |-> co, size |-> sz]

CustomerRow(c, n) == [customer_id |-> c, customer_name |-> n]

ReservationRow(c, a, s, e, p) ==
  [customer_id |-> c, apartment_id |-> a, start_date |-> s, end_date |-> e,
   total_price |-> p]

ReviewRow(c, a, d, r, t) ==
  [customer_id |-> c, apartment_id |-> a, review_date |-> d, rating |-> r,
   review_text |-> t]

OwnsRow(o, a) == [owner_id |-> o, apartment_id |-> a]

OwnerExists(o) == \E x \in Owner : x.owner_id = o
ApartmentExists(a) == \E x \in Apartment : x.apartment_id = a
CustomerExists(c) == \E x \in Customer : x.customer_id = c

Init ==
  /\ Owner = {}
  /\ Apartment = {}
  /\ Customer = {}
  /\ CustomerReservations = {}
  /\ CustomerReviews = {}
  /\ ApartmentOwners = {}
  /\ lastOp = NoOp
  /\ pc = <<>>
  /\ call = <<>>
  /\ pending = <<>>
  /\ result = <<>>

(***************************************************************************)
(* add_owner, add_apartment, add_customer: one INSERT; the CHECKs are      *)
(* tested on the new row before the unique indexes.                        *)
(***************************************************************************)
add_owner_ret(o) ==
  IF ~(o > 0) THEN BAD_PARAMS
  ELSE IF OwnerExists(o) THEN ALREADY_EXISTS
  ELSE OK

add_owner(o, n) ==
  /\ Owner' = IF add_owner_ret(o) = OK THEN Owner \cup {OwnerRow(o, n)} ELSE Owner
  /\ Returned("add_owner", add_owner_ret(o))
  /\ UNCHANGED <<Apartment, Customer, CustomerReservations, CustomerReviews,
                 ApartmentOwners, conc>>

add_apartment_ret(a, ad, ci, co, sz) ==
  IF ~(a > 0 /\ sz > 0) THEN BAD_PARAMS
  ELSE IF \/ ApartmentExists(a)
          \/ \E x \in Apartment : x.address = ad /\ x.city = ci /\ x.country = co
       THEN ALREADY_EXISTS
  ELSE OK

add_apartment(a, ad, ci, co, sz) ==
  /\ Apartment' = IF add_apartment_ret(a, ad, ci, co, sz) = OK
                  THEN Apartment \cup {ApartmentRow(a, ad, ci, co, sz)}
                  ELSE Apartment
  /\ Returned("add_apartment", add_apartment_ret(a, ad, ci, co, sz))
  /\ UNCHANGED <<Owner, Customer, CustomerReservations, CustomerReviews,
                 ApartmentOwners, conc>>

add_customer_ret(c) ==
  IF ~(c > 0) THEN BAD_PARAMS
  ELSE IF CustomerExists(c) THEN ALREADY_EXISTS
  ELSE OK

add_customer(c, n) ==
  /\ Customer' = IF add_customer_ret(c) = OK
                 THEN Customer \cup {CustomerRow(c, n)} ELSE Customer
  /\ Returned("add_customer", add_customer_ret(c))
  /\ UNCHANGED <<Owner, Apartment, CustomerReservations, CustomerReviews,
                 ApartmentOwners, conc>>

(***************************************************************************)
(* The rows the ON DELETE CASCADE foreign keys leave in a referencing      *)
(* table once the referenced id is gone.                                   *)
(***************************************************************************)
(* the customer's rows are left behind *)
CascadeCustomer_Kept(rows, c) == rows

CascadeCustomer(rows, c) == {x \in rows : x.customer_id # c}

CascadeApartment(rows, a) == {x \in rows : x.apartment_id # a}

CascadeOwner(rows, o) == {x \in rows : x.owner_id # o}

delete_owner_ret(o) ==
  IF ~(o > 0) THEN BAD_PARAMS
  ELSE IF ~OwnerExists(o) THEN NOT_EXISTS
  ELSE OK

delete_owner(o) ==
  /\ IF delete_owner_ret(o) = OK
     THEN /\ Owner' = {x \in Owner : x.owner_id # o}
          /\ ApartmentOwners' = CascadeOwner(ApartmentOwners, o)
     ELSE UNCHANGED <<Owner, ApartmentOwners>>
  /\ Returned("delete_owner", delete_owner_ret(o))
  /\ UNCHANGED <<Apartment, Customer, CustomerReservations, CustomerReviews, conc>>

delete_apartment_ret(a) ==
  IF ~(a > 0) THEN BAD_PARAMS
  ELSE IF ~ApartmentExists(a) THEN NOT_EXISTS
  ELSE OK

delete_apartment(a) ==
  /\ IF delete_apartment_ret(a) = OK
     THEN /\ Apartment' = {x \in Apartment : x.apartment_id # a}
          /\ CustomerReservations' = CascadeApartment(CustomerReservations, a)
          /\ CustomerReviews' = CascadeApartment(CustomerReviews, a)
          /\ ApartmentOwners' = CascadeApartment(ApartmentOwners, a)
     ELSE UNCHANGED <<Apartment, CustomerReservations, CustomerReviews, ApartmentOwners>>
  /\ Returned("delete_apartment", delete_apartment_ret(a))
  /\ UNCHANGED <<Owner, Customer, conc>>

delete_customer_ret(c) ==
  IF ~(c > 0) THEN BAD_PARAMS
  ELSE IF ~CustomerExists(c) THEN NOT_EXISTS
  ELSE OK

delete_customer(c) ==
  /\ IF delete_customer_ret(c) = OK
     THEN /\ Customer' = {x \in Customer : x.customer_id # c}
          /\ CustomerReservations' = CascadeCustomer(CustomerReservations, c)
          /\ CustomerReviews' = CascadeCustomer(CustomerReviews, c)
     ELSE UNCHANGED <<Customer, CustomerReservations, CustomerReviews>>
  /\ Returned("delete_customer", delete_customer_ret(c))
  /\ UNCHANGED <<Owner, Apartment, ApartmentOwners, conc>>

(***************************************************************************)
(* customer_made_reservation: INSERT ... SELECT ... WHERE NOT EXISTS (a    *)
(* stored reservation of the apartment that the three-way date test        *)
(* matches).  No row selected: BAD_PARAMS.  Otherwise the row goes through *)
(* the CHECKs, UNIQUE(apartment_id, start_date), which the handler does    *)
(* not catch by name, and the foreign keys.                                *)
(***************************************************************************)
(* the date test on closed intervals: touching end points clash *)
DatesClash_Closed(s, e, r) == s <= r.end_date /\ r.start_date <= e

DatesClash(s, e, r) ==
  \/ (s >= r.start_date /\ e <= r.end_date)
  \/ (e > r.start_date /\ e <= r.end_date /\ s <= r.start_date)
  \/ (s >= r.start_date /\ s < r.end_date /\ e >= r.end_date)

ApartmentTaken(rows, a, s, e) ==
  \E r \in rows : r.apartment_id = a /\ DatesClash(s, e, r)

ReservationChecks(c, a, s, e, p) == p > 0 /\ e > s /\ c > 0 /\ a > 0

ReservationUnique(rows, a, s) ==
  ~\E r \in rows : r.apartment_id = a /\ r.start_date = s

customer_made_reservation_ret(c, a, s, e, p) ==
  IF ApartmentTaken(CustomerReservations, a, s, e) THEN BAD_PARAMS
  ELSE IF ~ReservationChecks(c, a, s, e, p) THEN BAD_PARAMS
  ELSE IF ~ReservationUnique(CustomerReservations, a, s) THEN ERROR
  ELSE IF ~(CustomerExists(c) /\ ApartmentExists(a)) THEN NOT_EXISTS
  ELSE OK

customer_made_reservation(c, a, s, e, p) ==
  /\ CustomerReservations' =
       IF customer_made_reservation_ret(c, a, s, e, p) = OK
       THEN CustomerReservations \cup {ReservationRow(c, a, s, e, p)}
       ELSE CustomerReservations
  /\ Returned("reserve", customer_made_reservation_ret(c, a, s, e, p))
  /\ UNCHANGED <<Owner, Apartment, Customer, CustomerReviews, ApartmentOwners, conc>>

(***************************************************************************)
(* customer_cancelled_reservation: DELETE of the rows of that customer,    *)
(* apartment and start date; only CustomerReservations is written.         *)
(***************************************************************************)
CancelledRows(c, a, s) ==
  {r \in CustomerReservations :
     r.customer_id = c /\ r.apartment_id = a /\ r.start_date = s}

customer_cancelled_reservation_ret(c, a, s) ==
  IF ~(c > 0 /\ a > 0) THEN BAD_PARAMS
  ELSE IF CancelledRows(c, a, s) = {} THEN NOT_EXISTS
  ELSE OK

customer_cancelled_reservation(c, a, s) ==
  /\ CustomerReservations' =
       IF customer_cancelled_reservation_ret(c, a, s) = OK
       THEN CustomerReservations \ CancelledRows(c, a, s)
       ELSE CustomerReservations
  /\ Returned("cancel", customer_cancelled_reservation_ret(c, a, s))
  /\ UNCHANGED <<Owner, Apartment, Customer, CustomerReviews, ApartmentOwners, conc>>

(***************************************************************************)
(* customer_reviewed_apartment: INSERT ... SELECT ... WHERE EXISTS (a      *)
(* reservation of that customer on that apartment with end_date <= the     *)
(* review date).  No row selected: BAD_PARAMS for a non-positive id or a   *)
(* rating outside 1..10, else NOT_EXISTS.  Otherwise the CHECKs, then      *)
(* UNIQUE(customer_id, apartment_id), then the foreign keys.               *)
(***************************************************************************)
(* the stay must have ended before the review date *)
CompletedStay_EndedBefore(c, a, d) ==
  \E r \in CustomerReservations :
     r.apartment_id = a /\ d > r.end_date /\ c = r.customer_id

CompletedStay(c, a, d) ==
  \E r \in CustomerReservations :
     r.apartment_id = a /\ d >= r.end_date /\ c = r.customer_id

ReviewArgsBad(c, a, r) == ~(c > 0) \/ ~(a > 0) \/ r < MinRating \/ r > MaxRating

(* no unique index on (customer_id, apartment_id) *)
ReviewUnique_NoIndex(c, a) == TRUE

ReviewUnique(c, a) ==
  ~\E v \in CustomerReviews : v.customer_id = c /\ v.apartment_id = a

customer_reviewed_apartment_ret(c, a, d, r, t) ==
  IF ~CompletedStay(c, a, d)
  THEN (IF ReviewArgsBad(c, a, r) THEN BAD_PARAMS ELSE NOT_EXISTS)
  ELSE IF ~(r >= MinRating /\ r <= MaxRating /\ c > 0 /\ a > 0) THEN BAD_PARAMS
  ELSE IF ~ReviewUnique(c, a) THEN ALREADY_EXISTS
  ELSE IF ~(CustomerExists(c) /\ ApartmentExists(a)) THEN NOT_EXISTS
  ELSE OK

customer_reviewed_apartment(c, a, d, r, t) ==
  /\ CustomerReviews' =
       IF customer_reviewed_apartment_ret(c, a, d, r, t) = OK
       THEN CustomerReviews \cup {ReviewRow(c, a, d, r, t)}
       ELSE CustomerReviews
  /\ Returned("review", customer_reviewed_apartment_ret(c, a, d, r, t))
  /\ UNCHANGED <<Owner, Apartment, Customer, CustomerReservations, ApartmentOwners, conc>>

(***************************************************************************)
(* customer_updated_review: UPDATE of the pair's review when its           *)
(* review_date <= the new date.  No row matched: BAD_PARAMS for a          *)
(* non-positive id or a rating outside 1..10, else NOT_EXISTS.  A matched  *)
(* row is rewritten and goes through the rating CHECK.                     *)
(***************************************************************************)
(* the UPDATE with no review_date <= update_date in its WHERE *)
UpdatedRows_AnyDate(c, a, d) ==
  {v \in CustomerReviews : v.customer_id = c /\ v.apartment_id = a}

(* the UPDATE with review_date < update_date in its WHERE *)
UpdatedRows_Earlier(c, a, d) ==
  {v \in CustomerReviews :
     v.customer_id = c /\ v.apartment_id = a /\ v.review_date < d}

UpdatedRows(c, a, d) ==
  {v \in CustomerReviews :
     v.customer_id = c /\ v.apartment_id = a /\ v.review_date <= d}

customer_updated_review_ret(c, a, d, r, t) ==
  IF UpdatedRows(c, a, d) = {}
  THEN (IF ReviewArgsBad(c, a, r) THEN BAD_PARAMS ELSE NOT_EXISTS)
  ELSE IF ~(r >= MinRating /\ r <= MaxRating) THEN BAD_PARAMS
  ELSE OK

(* CustomerReviews once the call has returned *)
customer_updated_review_rows(c, a, d, r, t) ==
  IF customer_updated_review_ret(c, a, d, r, t) = OK
  THEN (CustomerReviews \ UpdatedRows(c, a, d)) \cup
       {ReviewRow(v.customer_id, v.apartment_id, d, r, t) : v \in UpdatedRows(c, a, d)}
  ELSE CustomerReviews

customer_updated_review(c, a, d, r, t) ==
  /\ CustomerReviews' = customer_updated_review_rows(c, a, d, r, t)
  /\ Returned("update_review", customer_updated_review_ret(c, a, d, r, t))
  /\ UNCHANGED <<Owner, Apartment, Customer, CustomerReservations, ApartmentOwners, conc>>

(***************************************************************************)
(* owner_owns_apartment / owner_drops_apartment.  ApartmentOwners has      *)
(* PRIMARY KEY(apartment_id), tested before the foreign keys.              *)
(***************************************************************************)
(* ApartmentOwners with PRIMARY KEY(owner_id, apartment_id) *)
owner_owns_apartment_ret_PairKey(o, a) ==
  IF ~(o > 0 /\ a > 0) THEN BAD_PARAMS
  ELSE IF OwnsRow(o, a) \in ApartmentOwners THEN ALREADY_EXISTS
  ELSE IF ~(OwnerExists(o) /\ ApartmentExists(a)) THEN NOT_EXISTS
  ELSE OK

owner_owns_apartment_ret(o, a) ==
  IF ~(o > 0 /\ a > 0) THEN BAD_PARAMS
  ELSE IF \E x \in ApartmentOwners : x.apartment_id = a THEN ALREADY_EXISTS
  ELSE IF ~(OwnerExists(o) /\ ApartmentExists(a)) THEN NOT_EXISTS
  ELSE OK

owner_owns_apartment(o, a) ==
  /\ ApartmentOwners' = IF owner_owns_apartment_ret(o, a) = OK
                        THEN ApartmentOwners \cup {OwnsRow(o, a)}
                        ELSE ApartmentOwners
  /\ Returned("owns", owner_owns_apartment_ret(o, a))
  /\ UNCHANGED <<Owner, Apartment, Customer, CustomerReservations, CustomerReviews, conc>>

owner_drops_apartment_ret(o, a) ==
  IF ~(o > 0 /\ a > 0) THEN BAD_PARAMS
  ELSE IF OwnsRow(o, a) \notin ApartmentOwners THEN NOT_EXISTS
  ELSE OK

owner_drops_apartment(o, a) ==
  /\ ApartmentOwners' = IF owner_drops_apartment_ret(o, a) = OK
                        THEN ApartmentOwners \ {OwnsRow(o, a)}
                        ELSE ApartmentOwners
  /\ Returned("drops", owner_drops_apartment_ret(o, a))
  /\ UNCHANGED <<Owner, Apartment, Customer, CustomerReservations, CustomerReviews, conc>>

(***************************************************************************)
(* Fractions <<n, d>> with d > 0, for AVG and "/".                         *)
(***************************************************************************)
Frac(n, d) == <<n, d>>

FracEq(x, y) == x[1] * y[2] = y[1] * x[2]

FracLess(x, y) == x[1] * y[2] < y[1] * x[2]

FracAdd(x, y) == <<x[1] * y[2] + y[1] * x[2], x[2] * y[2]>>

(* x / y, for y > 0 *)
FracDiv(x, y) == <<x[1] * y[2], x[2] * y[1]>>

RECURSIVE SumFrac(_, _)
(* the sum of the fractions val[x], x in the finite set S *)
SumFrac(S, val) ==
  IF S = {} THEN Frac(0, 1)
  ELSE LET x == CHOOSE y \in S : TRUE
       IN FracAdd(val[x], SumFrac(S \ {x}, val))

(* AVG over the rows S of the row's value val[x]; S is not empty *)
Avg(S, val) == FracDiv(SumFrac(S, val), Frac(Cardinality(S), 1))

(***************************************************************************)
(* The views of create_tables.  NULL stands for the NULL an outer join     *)
(* puts in an id column; no id is 0, so it joins with nothing.             *)
(***************************************************************************)
NULL == 0

ApartmentOwnersFullData ==
  {[owner_id |-> x.owner_id, owner_name |-> o.owner_name,
    apartment_id |-> b.apartment_id, address |-> b.address, city |-> b.city,
    country |-> b.country, size |-> b.size] :
     <<x, o, b>> \in {y \in ApartmentOwners \X Owner \X Apartment :
                        /\ y[1].owner_id = y[2].owner_id
                        /\ y[1].apartment_id = y[3].apartment_id}}

(* ApartmentOwnersFullData A RIGHT OUTER JOIN CustomerReviews C: every   *)
(* review once per owner row of its apartment, once with NULLs if none.  *)
ApartmentReviewsFullData ==
  LET owned(v) == {x \in ApartmentOwnersFullData : x.apartment_id = v.apartment_id}
      row(o, n, v) ==
        [owner_id |-> o, apartment_id |-> v.apartment_id, owner_name |-> n,
         customer_id |-> v.customer_id, review_date |-> v.review_date,
         rating |-> v.rating, review_text |-> v.review_text]
  IN UNION {IF owned(v) = {} THEN {row(NULL, "", v)}
            ELSE {row(x.owner_id, x.owner_name, v) : x \in owned(v)} :
            v \in CustomerReviews}

(* ApartmentOwners A LEFT JOIN ApartmentReviewsFullData B, grouped by A's *)
(* apartment and owner: one row per owned apartment.                      *)
ApartmentAvgRating ==
  {[owner_id |-> x.owner_id, apartment_id |-> x.apartment_id,
    avg_rating |->
      LET B == {v \in ApartmentReviewsFullData : v.apartment_id = x.apartment_id}
      IN IF B = {} THEN Frac(0, 1)
         ELSE Avg(B, [v \in B |-> Frac(v.rating, 1)])] :
     x \in ApartmentOwners}

(* CustomerReservations C FULL OUTER JOIN ApartmentReviewsFullData A,     *)
(* then JOIN Apartment B ON C.apartment_id: the rows with no reservation  *)
(* side are dropped, a reservation with no review keeps rating 0.  res    *)
(* and rev name the joined rows, so that equal values stay two rows.      *)
ApartmentPriceRatingAVG ==
  LET revs(c) == {v \in ApartmentReviewsFullData : v.apartment_id = c.apartment_id}
      row(c, b, rt, v) ==
        [apartment_id |-> b.apartment_id, address |-> b.address, city |-> b.city,
         country |-> b.country, size |-> b.size,
         price_per_night |-> Frac(c.total_price, c.end_date - c.start_date),
         rating |-> rt, res |-> c, rev |-> v]
  IN UNION {IF revs(c) = {}
            THEN {row(c, b, 0, <<>>) : b \in {y \in Apartment : y.apartment_id = c.apartment_id}}
            ELSE {row(c, x[1], x[2].rating, <<x[2].customer_id>>) :
                    x \in {y \in Apartment : y.apartment_id = c.apartment_id} \X revs(c)} :
            c \in CustomerReservations}

(***************************************************************************)
(* get_apartment_rating: the avg_rating of the apartment's row of          *)
(* ApartmentAvgRating, 0.0 when the view has no such row.                  *)
(***************************************************************************)
get_apartment_rating(a) ==
  LET res == {x \in ApartmentAvgRating : x.apartment_id = a}
  IN IF res = {} THEN Frac(0, 1)
     ELSE (CHOOSE x \in res : TRUE).avg_rating

(***************************************************************************)
(* best_value_for_money: the rows of ApartmentPriceRatingAVG grouped by    *)
(* apartment, ordered by AVG(rating) / AVG(price_per_night) descending,    *)
(* LIMIT 1.  The order among equal values is the engine's: the operator is *)
(* the set of apartments the call may return.                              *)
(***************************************************************************)
bad_apartment ==
  [apartment_id |-> NULL, address |-> "", city |-> "", country |-> "", size |-> NULL]

value_for_money(a) ==
  LET G == {x \in ApartmentPriceRatingAVG : x.apartment_id = a}
  IN FracDiv(Avg(G, [x \in G |-> Frac(x.rating, 1)]),
             Avg(G, [x \in G |-> x.price_per_night]))

best_value_for_money ==
  LET groups == {x.apartment_id : x \in ApartmentPriceRatingAVG}
      first == {a \in groups :
                  \A b \in groups : ~FracLess(value_for_money(a), value_for_money(b))}
  IN IF groups = {} THEN {bad_apartment}
     ELSE {b \in Apartment : b.apartment_id \in first}

(***************************************************************************)
(* get_all_location_owners: the owners of distinct_cities_per_owner whose  *)
(* cities_per_owner equals total_cities.  distinct_cities_per_owner is     *)
(* grouped over ApartmentOwnersFullData JOIN Apartment, so it has a row    *)
(* only for an owner with at least one apartment.                          *)
(***************************************************************************)
total_distinct_cities ==
  Cardinality({<<b.city, b.country>> : b \in Apartment})

distinct_cities_per_owner ==
  LET joined == {x \in ApartmentOwnersFullData \X Apartment :
                   x[1].apartment_id = x[2].apartment_id}
      groups == {<<x[1].owner_id, x[1].owner_name>> : x \in joined}
  IN {[owner_id |-> g[1], owner_name |-> g[2],
       cities_per_owner |->
         Cardinality({<<x[2].city, x[2].country>> :
                        x \in {y \in joined : /\ y[1].owner_id = g[1]
                                              /\ y[1].owner_name = g[2]}})] :
      g \in groups}

get_all_location_owners ==
  {OwnerRow(x.owner_id, x.owner_name) :
     x \in {y \in distinct_cities_per_owner :
              y.cities_per_owner = total_distinct_cities}}

(***************************************************************************)
(* get_owner_rating: the avg_rating of the owner's row of OwnerAvgRating,  *)
(* Owner A LEFT JOIN ApartmentAvgRating AR grouped by owner, which is      *)
(* COALESCE(AVG(AR.avg_rating), 0); 0.0 when the view has no such row.     *)
(***************************************************************************)
(* the mean of all the ratings of the owner's apartments, 0 without any *)
OwnerAvg_Pooled(o) ==
  LET V == {v \in CustomerReviews : OwnsRow(o, v.apartment_id) \in ApartmentOwners}
  IN IF V = {} THEN Frac(0, 1) ELSE Avg(V, [v \in V |-> Frac(v.rating, 1)])

OwnerAvg(o) ==
  LET AR == {x \in ApartmentAvgRating : x.owner_id = o}
  IN IF AR = {} THEN Frac(0, 1) ELSE Avg(AR, [x \in AR |-> x.avg_rating])

OwnerAvgRating ==
  {[owner_id |-> A.owner_id, avg_rating |-> OwnerAvg(A.owner_id)] : A \in Owner}

get_owner_rating(o) ==
  LET res == {x \in OwnerAvgRating : x.owner_id = o}
  IN IF res = {} THEN Frac(0, 1)
     ELSE (CHOOSE x \in res : TRUE).avg_rating

(***************************************************************************)
(* get_apartment_recommendation and the views under it.  The fractions are *)
(* kept in lowest terms here.                                              *)
(***************************************************************************)
RECURSIVE Gcd(_, _)
Gcd(m, n) == IF n = 0 THEN m ELSE Gcd(n, m % n)

FracNorm(x) ==
  LET g == Gcd(IF x[1] < 0 THEN -x[1] ELSE x[1], x[2])
  IN <<x[1] \div g, x[2] \div g>>

FracMul(x, y) == FracNorm(<<x[1] * y[1], x[2] * y[2]>>)

LEAST(x, y) == IF FracLess(y, x) THEN y ELSE x

GREATEST(x, y) == IF FracLess(x, y) THEN y ELSE x

(* CustomerReviews A, CustomerReviews B of two customers on one apartment *)
CustomerReviewsProd ==
  {[customer_a_id |-> x[1].customer_id, customer_b_id |-> x[2].customer_id,
    apartment_id |-> x[1].apartment_id,
    customer_a_rating |-> x[1].rating, customer_b_rating |-> x[2].rating] :
     x \in {y \in CustomerReviews \X CustomerReviews :
              /\ y[1].customer_id # y[2].customer_id
              /\ y[1].apartment_id = y[2].apartment_id}}

CustomerRatingsAvgRatio ==
  {[customer_a_id |-> g[1], customer_b_id |-> g[2],
    avg_ratio |->
      LET G == {x \in CustomerReviewsProd :
                  x.customer_a_id = g[1] /\ x.customer_b_id = g[2]}
      IN FracNorm(Avg(G, [x \in G |-> Frac(x.customer_a_rating, x.customer_b_rating)]))] :
     g \in {<<x.customer_a_id, x.customer_b_id>> : x \in CustomerReviewsProd}}

(* a customer with a review, and an apartment that customer has no review of *)
UnreviewedApartments ==
  {[customer_id |-> x[1].customer_id, unreviewed_apartment_id |-> x[2].apartment_id] :
     x \in {y \in CustomerReviews \X Apartment :
              ~\E D \in CustomerReviews : /\ D.customer_id = y[1].customer_id
                                          /\ y[2].apartment_id = D.apartment_id}}

CustomersUnreviewedApartmentsAvgRatio ==
  {[customer_a_id |-> x[1].customer_a_id, customer_b_id |-> x[1].customer_b_id,
    avg_ratio |-> x[1].avg_ratio,
    unreviewed_apartment_id |-> x[2].unreviewed_apartment_id] :
     x \in {y \in CustomerRatingsAvgRatio \X UnreviewedApartments :
              y[1].customer_a_id = y[2].customer_id}}

(* AVG(rating * avg_ratio) with no LEAST and GREATEST around the product *)
ExpectedRating_Unclamped(G) ==
  FracNorm(Avg(G, [x \in G |-> FracMul(Frac(x[2].rating, 1), x[1].avg_ratio)]))

(* AVG(GREATEST(LEAST(rating * avg_ratio, 10), 1)) over the joined rows G *)
ExpectedRating(G) ==
  FracNorm(Avg(G, [x \in G |->
    GREATEST(LEAST(FracMul(Frac(x[2].rating, 1), x[1].avg_ratio), Frac(10, 1)),
             Frac(1, 1))]))

CustomersUnreviewedApartmentsFilter ==
  LET joined == {y \in CustomersUnreviewedApartmentsAvgRatio \X CustomerReviews :
                   /\ y[1].customer_b_id = y[2].customer_id
                   /\ y[1].unreviewed_apartment_id = y[2].apartment_id}
  IN {[customer_id |-> g[1], unreviewed_apartment_id |-> g[2],
       expected_rating |->
         ExpectedRating({x \in joined : /\ x[1].customer_a_id = g[1]
                                        /\ x[1].unreviewed_apartment_id = g[2]})] :
      g \in {<<x[1].customer_a_id, x[1].unreviewed_apartment_id>> : x \in joined}}

CustomerUnreviewedApartmentsFullData ==
  {[customer_id |-> x[1].customer_id, expected_rating |-> x[1].expected_rating,
    unreviewed_apartment_id |-> x[1].unreviewed_apartment_id,
    address |-> x[2].address, city |-> x[2].city, country |-> x[2].country,
    size |-> x[2].size] :
     x \in {y \in CustomersUnreviewedApartmentsFilter \X Apartment :
              y[1].unreviewed_apartment_id = y[2].apartment_id}}

(* the list of (Apartment, expected_rating), as the set of its entries *)
get_apartment_recommendation(c) ==
  {<<ApartmentRow(x.unreviewed_apartment_id, x.address, x.city, x.country, x.size),
     x.expected_rating>> :
     x \in {y \in CustomerUnreviewedApartmentsFullData : y.customer_id = c}}

(***************************************************************************)
(* profit_per_month.  Day 1 is 1 January 2021; 2021, 2022 and 2023 have    *)
(* 365 days each, and YearOf and MonthOf are EXTRACT(YEAR FROM ...) and    *)
(* EXTRACT(MONTH FROM ...) for the days 1..1095.  The query gives one row  *)
(* (month, SUM(total_price * 0.15)) per month of the year that some        *)
(* reservation ends in; the handler appends (i, 0.0) for every other month *)
(* and sorts by month, or returns twelve (i, 0.0) when no row came back.   *)
(***************************************************************************)
DaysInYear == 365

FirstYear == 2021

DaysBeforeMonth == <<0, 31, 59, 90, 120, 151, 181, 212, 243, 273, 304, 334>>

YearOf(d) == FirstYear + ((d - 1) \div DaysInYear)

MonthOf(d) ==
  LET n == ((d - 1) % DaysInYear) + 1
  IN CHOOSE m \in 1..12 :
       /\ DaysBeforeMonth[m] < n
       /\ (m = 12 \/ n <= DaysBeforeMonth[m + 1])

RECURSIVE SumProfit(_)
(* SUM(total_price * 0.15) over the rows S *)
SumProfit(S) ==
  IF S = {} THEN Frac(0, 1)
  ELSE LET x == CHOOSE y \in S : TRUE
       IN FracNorm(FracAdd(Frac(x.total_price * 15, 100), SumProfit(S \ {x})))

(* the query with no WHERE EXTRACT(YEAR FROM end_date) = year *)
ProfitRows_AnyYear(year) ==
  {<<m, SumProfit({r \in CustomerReservations : MonthOf(r.end_date) = m})>> :
     m \in {MonthOf(r.end_date) : r \in CustomerReservations}}

ProfitRows(year) ==
  LET W == {r \in CustomerReservations : YearOf(r.end_date) = year}
  IN {<<m, SumProfit({r \in W : MonthOf(r.end_date) = m})>> :
        m \in {MonthOf(r.end_date) : r \in W}}

(* sorted(result, key=lambda x : x[0]) of entries with distinct months *)
SortedByMonth(S) ==
  [i \in 1..Cardinality(S) |->
     CHOOSE x \in S : Cardinality({y \in S : y[1] < x[1]}) = i - 1]

profit_per_month(year) ==
  IF ProfitRows(year) = {} THEN [i \in 1..12 |-> <<i, Frac(0, 1)>>]
  ELSE LET missing_months == (1..12) \ {x[1] : x \in ProfitRows(year)}
       IN SortedByMonth(ProfitRows(year) \cup {<<i, Frac(0, 1)>> : i \in missing_months})

(***************************************************************************)
(* get_top_customer: the row of the view TopCustomer, Customer JOIN        *)
(* CustomerReservations grouped by customer, ORDER BY the count DESC,       *)
(* customer_id ASC LIMIT 1; bad_customer when the view is empty.           *)
(***************************************************************************)
bad_customer == [customer_id |-> NULL, customer_name |-> ""]

ReservationCount(c) ==
  Cardinality({B \in CustomerReservations : c = B.customer_id})

(* ORDER BY the count DESC, customer_id DESC *)
TopCustomer_LargestId ==
  LET groups == {A \in Customer : ReservationCount(A.customer_id) > 0}
  IN {A \in groups : \A x \in groups :
        \/ ReservationCount(A.customer_id) > ReservationCount(x.customer_id)
        \/ /\ ReservationCount(A.customer_id) = ReservationCount(x.customer_id)
           /\ A.customer_id >= x.customer_id}

TopCustomer ==
  LET groups == {A \in Customer : ReservationCount(A.customer_id) > 0}
  IN {A \in groups : \A x \in groups :
        \/ ReservationCount(A.customer_id) > ReservationCount(x.customer_id)
        \/ /\ ReservationCount(A.customer_id) = ReservationCount(x.customer_id)
           /\ A.customer_id <= x.customer_id}

get_top_customer ==
  IF TopCustomer = {} THEN bad_customer ELSE CHOOSE x \in TopCustomer : TRUE

(***************************************************************************)
(* The store: any sequence of calls of the twelve operations above,        *)
(* starting from the empty tables create_tables leaves.                    *)
(***************************************************************************)
Next ==
  \/ \E o \in OwnerIds, n \in Names : add_owner(o, n)
  \/ \E a \in ApartmentIds, ad \in Addresses, ci \in Cities, co \in Countries,
        sz \in Sizes : add_apartment(a, ad, ci, co, sz)
  \/ \E c \in CustomerIds, n \in Names : add_customer(c, n)
  \/ \E o \in OwnerIds : delete_owner(o)
  \/ \E a \in ApartmentIds : delete_apartment(a)
  \/ \E c \in CustomerIds : delete_customer(c)
  \/ \E c \in CustomerIds, a \in ApartmentIds, s \in StoreDates, e \in StoreDates,
        p \in Prices : customer_made_reservation(c, a, s, e, p)
  \/ \E c \in CustomerIds, a \in ApartmentIds, s \in StoreDates :
        customer_cancelled_reservation(c, a, s)
  \/ \E c \in CustomerIds, a \in ApartmentIds, d \in StoreDates, r \in Ratings,
        t \in Texts : customer_reviewed_apartment(c, a, d, r, t)
  \/ \E c \in CustomerIds, a \in ApartmentIds, d \in StoreDates, r \in Ratings,
        t \in Texts : customer_updated_review(c, a, d, r, t)
  \/ \E o \in OwnerIds, a \in ApartmentIds : owner_owns_apartment(o, a)
  \/ \E o \in OwnerIds, a \in ApartmentIds : owner_drops_apartment(o, a)

Spec == Init /\ [][Next]_vars

(***************************************************************************)
(* The reservation calendar of one apartment: apartment 1 has been added,  *)
(* apartment 2 never is; customers come and go, reserve and cancel.        *)
(***************************************************************************)
InitReserve ==
  /\ Owner = {}
  /\ Apartment = {ApartmentRow(1, "s", "A", "X", 1)}
  /\ Customer = {}
  /\ CustomerReservations = {}
  /\ CustomerReviews = {}
  /\ ApartmentOwners = {}
  /\ lastOp = [op |-> "add_apartment", ret |-> OK]
  /\ pc = <<>>
  /\ call = <<>>
  /\ pending = <<>>
  /\ result = <<>>

NextReserve ==
  \/ \E c \in GuestIds, n \in Names : add_customer(c, n)
  \/ \E c \in GuestIds : delete_customer(c)
  \/ \E c \in GuestIds, a \in RoomIds, s \in Dates, e \in Dates, p \in Prices :
        customer_made_reservation(c, a, s, e, p)
  \/ \E c \in GuestIds, a \in RoomIds, s \in Dates :
        customer_cancelled_reservation(c, a, s)

SpecReserve == InitReserve /\ [][NextReserve]_vars

(***************************************************************************)
(* Two callers inside customer_made_reservation at once.  Each runs its    *)
(* INSERT ... SELECT on a connection of its own and commits afterwards;    *)
(* the handler sets no isolation level and takes no lock, so the           *)
(* sub-select reads the committed rows only, and the row a caller has      *)
(* inserted is seen by the other caller once it is committed.  The unique  *)
(* index on (apartment_id, start_date) makes an insert wait while another  *)
(* transaction holds an uncommitted row with the same key.                 *)
(***************************************************************************)
Procs == {1, 2}

CallRow(p) ==
  ReservationRow(call[p][1], call[p][2], call[p][3], call[p][4], call[p][5])

InitConc ==
  /\ Owner = {}
  /\ Apartment = {ApartmentRow(1, "s", "A", "X", 1)}
  /\ Customer = {CustomerRow(c, "n") : c \in GuestIds}
  /\ CustomerReservations = {}
  /\ CustomerReviews = {}
  /\ ApartmentOwners = {}
  /\ lastOp = [op |-> "add_customer", ret |-> OK]
  /\ pc = [p \in Procs |-> "called"]
  /\ call \in [Procs -> GuestIds \X RoomIds \X Dates \X Dates \X Prices]
  /\ pending = [p \in Procs |-> {}]
  /\ result = [p \in Procs |-> "none"]

(* the NOT EXISTS sub-select; no row selected: return BAD_PARAMS *)
reserve_select(p) ==
  /\ pc[p] = "called"
  /\ IF ApartmentTaken(CustomerReservations, call[p][2], call[p][3], call[p][4])
     THEN /\ pc' = [pc EXCEPT ![p] = "closed"]
          /\ result' = [result EXCEPT ![p] = BAD_PARAMS]
     ELSE /\ pc' = [pc EXCEPT ![p] = "selected"]
          /\ UNCHANGED result
  /\ UNCHANGED <<tables, lastOp, call, pending>>

(* the insert of the selected row: CHECKs, unique index, foreign keys *)
reserve_insert(p) ==
  /\ pc[p] = "selected"
  /\ LET c == call[p][1]
         a == call[p][2]
         s == call[p][3]
         e == call[p][4]
         ret == IF ~ReservationChecks(c, a, s, e, call[p][5]) THEN BAD_PARAMS
                ELSE IF ~ReservationUnique(CustomerReservations, a, s) THEN ERROR
                ELSE IF ~(CustomerExists(c) /\ ApartmentExists(a)) THEN NOT_EXISTS
                ELSE OK
     IN /\ ReservationChecks(c, a, s, e, call[p][5])
           => \A q \in Procs \ {p} : ReservationUnique(pending[q], a, s)
        /\ IF ret = OK
           THEN /\ pending' = [pending EXCEPT ![p] = {CallRow(p)}]
                /\ pc' = [pc EXCEPT ![p] = "inserted"]
                /\ UNCHANGED result
           ELSE /\ pc' = [pc EXCEPT ![p] = "closed"]
                /\ result' = [result EXCEPT ![p] = ret]
                /\ UNCHANGED pending
  /\ UNCHANGED <<tables, lastOp, call>>

(* conn.commit(), then return OK *)
reserve_commit(p) ==
  /\ pc[p] = "inserted"
  /\ CustomerReservations' = CustomerReservations \cup pending[p]
  /\ pending' = [pending EXCEPT ![p] = {}]
  /\ pc' = [pc EXCEPT ![p] = "closed"]
  /\ result' = [result EXCEPT ![p] = OK]
  /\ UNCHANGED <<Owner, Apartment, Customer, CustomerReviews, ApartmentOwners,
                 lastOp, call>>

NextConc ==
  \E p \in Procs : reserve_select(p) \/ reserve_insert(p) \/ reserve_commit(p)

SpecConc == InitConc /\ [][NextConc]_vars

(***************************************************************************)
(* The reviews of the customers 1..MaxReviewer on three apartments.  Every *)
(* customer has stayed in every apartment, customer c over [c, c + 1), so  *)
(* on ReviewDay every stay is over; customers review and update reviews.   *)
(***************************************************************************)
ReviewerIds == 1..MaxReviewer

Listings ==
  {ApartmentRow(1, "s", "A", "X", 1), ApartmentRow(2, "s", "B", "X", 1),
   ApartmentRow(3, "r", "A", "X", 1)}

ListingIds == {b.apartment_id : b \in Listings}

ReviewDay == MaxReviewer + 1

(* the ratings the CHECK admits, at its two ends *)
StoredRatings == {MinRating, MaxRating}

InitRecommend ==
  /\ Owner = {}
  /\ Apartment = Listings
  /\ Customer = {CustomerRow(c, "n") : c \in ReviewerIds}
  /\ CustomerReservations =
       {ReservationRow(c, a, c, c + 1, 1) : c \in ReviewerIds, a \in ListingIds}
  /\ CustomerReviews = {}
  /\ ApartmentOwners = {}
  /\ lastOp = [op |-> "reserve", ret |-> OK]
  /\ pc = <<>>
  /\ call = <<>>
  /\ pending = <<>>
  /\ result = <<>>

NextRecommend ==
  \/ \E c \in ReviewerIds, a \in ListingIds, r \in StoredRatings, t \in Texts :
        customer_reviewed_apartment(c, a, ReviewDay, r, t)
  \/ \E c \in ReviewerIds, a \in ListingIds, r \in StoredRatings, t \in Texts :
        customer_updated_review(c, a, ReviewDay, r, t)

SpecRecommend == InitRecommend /\ [][NextRecommend]_vars

(***************************************************************************)
(* Two apartments and their owners.  The customers 1..MaxTenant have       *)
(* stayed in both apartments, customer c over [c, c + 1); owner 1 is       *)
(* stored.  Owners are added and deleted, take and drop apartments, and    *)
(* the customers review and update reviews on StayOverDay.  ReviewDates    *)
(* are two days on which every stay is over.                               *)
(***************************************************************************)
TenantIds == 1..MaxTenant

LandlordIds == {1, 2}

Flats == {ApartmentRow(1, "s", "A", "X", 1), ApartmentRow(2, "s", "B", "X", 1)}

FlatIds == {b.apartment_id : b \in Flats}

(* the day the last stay is over *)
StayOverDay == MaxTenant + 1

ReviewDates == {StayOverDay, StayOverDay + 1}

InitOwners ==
  /\ Owner = {OwnerRow(1, "n")}
  /\ Apartment = Flats
  /\ Customer = {CustomerRow(c, "n") : c \in TenantIds}
  /\ CustomerReservations =
       {ReservationRow(c, a, c, c + 1, 1) : c \in TenantIds, a \in FlatIds}
  /\ CustomerReviews = {}
  /\ ApartmentOwners = {}
  /\ lastOp = [op |-> "reserve", ret |-> OK]
  /\ pc = <<>>
  /\ call = <<>>
  /\ pending = <<>>
  /\ result = <<>>

NextOwners ==
  \/ \E o \in LandlordIds, n \in Names : add_owner(o, n)
  \/ \E o \in LandlordIds : delete_owner(o)
  \/ \E o \in LandlordIds, a \in FlatIds : owner_owns_apartment(o, a)
  \/ \E o \in LandlordIds, a \in FlatIds : owner_drops_apartment(o, a)
  \/ \E c \in TenantIds, a \in FlatIds, r \in Ratings, t \in Texts :
        customer_reviewed_apartment(c, a, StayOverDay, r, t)
  \/ \E c \in TenantIds, a \in FlatIds, r \in Ratings, t \in Texts :
        customer_updated_review(c, a, StayOverDay, r, t)

SpecOwners == InitOwners /\ [][NextOwners]_vars

(***************************************************************************)
(* The ledger of apartment 1 around a new year: the guests reserve and     *)
(* cancel stays between 16 December 2021 and 15 January 2022.              *)
(***************************************************************************)
LedgerDates == {350, 360, 370, 380}

LedgerPrices == {1, 3}

LedgerYears == {2021, 2022, 2023}

InitLedger ==
  /\ Owner = {}
  /\ Apartment = {ApartmentRow(1, "s", "A", "X", 1)}
  /\ Customer = {CustomerRow(c, "n") : c \in GuestIds}
  /\ CustomerReservations = {}
  /\ CustomerReviews = {}
  /\ ApartmentOwners = {}
  /\ lastOp = [op |-> "add_customer", ret |-> OK]
  /\ pc = <<>>
  /\ call = <<>>
  /\ pending = <<>>
  /\ result = <<>>

NextLedger ==
  \/ \E c \in GuestIds, s \in LedgerDates, e \in LedgerDates, p \in LedgerPrices :
        customer_made_reservation(c, 1, s, e, p)
  \/ \E c \in GuestIds, s \in LedgerDates : customer_cancelled_reservation(c, 1, s)

SpecLedger == InitLedger /\ [][NextLedger]_vars

(***************************************************************************)
(* The reviews of the two apartments alone: from the same start, the       *)
(* customers review and update reviews.  A call passes one of three        *)
(* (rating, text) pairs, the last with a rating the CHECK refuses.         *)
(***************************************************************************)
ReviewInputs == {<<MinRating, "t">>, <<MaxRating, "u">>, <<MaxRating + 1, "t">>}

NextUpdate ==
  \/ \E c \in TenantIds, a \in FlatIds, d \in ReviewDates, x \in ReviewInputs :
        customer_reviewed_apartment(c, a, d, x[1], x[2])
  \/ \E c \in TenantIds, a \in FlatIds, d \in ReviewDates, x \in ReviewInputs :
        customer_updated_review(c, a, d, x[1], x[2])

SpecUpdate == InitOwners /\ [][NextUpdate]_vars

(***************************************************************************)
(* The claims.                                                             *)
(***************************************************************************)
Overlap(s1, e1, s2, e2) == s1 < e2 /\ s2 < e1

(* C1: in every reachable state no two distinct stored reservations of the *)
(* same apartment have overlapping half-open date ranges.                  *)
C1_NoOverlappingReservations ==
  \A r1, r2 \in CustomerReservations :
     (r1 # r2 /\ r1.apartment_id = r2.apartment_id)
       => ~Overlap(r1.start_date, r1.end_date, r2.start_date, r2.end_date)

(* C2: when two callers run reserve at once for the same apartment with    *)
(* overlapping date ranges, in no interleaving of their select, insert and *)
(* commit steps do both return OK with both reservations stored.           *)
C2_NoConcurrentDoubleBooking ==
  \A p, q \in Procs :
     ( /\ p # q
       /\ call[p][2] = call[q][2]
       /\ Overlap(call[p][3], call[p][4], call[q][3], call[q][4]) )
     => ~( /\ result[p] = OK /\ result[q] = OK
           /\ CallRow(p) \in CustomerReservations
           /\ CallRow(q) \in CustomerReservations )

(* C3: every stored review is backed by a stored reservation of the same   *)
(* customer on the same apartment whose end_date <= the review date.       *)
C3_ReviewBackedByReservation ==
  \A v \in CustomerReviews :
     \E r \in CustomerReservations :
        /\ r.customer_id = v.customer_id
        /\ r.apartment_id = v.apartment_id
        /\ r.end_date <= v.review_date

(* C4: a reserve call with price > 0 and end > start, for an existing      *)
(* customer and apartment, returns ALREADY_EXISTS and leaves the stored    *)
(* reservations unchanged whenever a stored reservation of the apartment   *)
(* overlaps the requested interval.                                        *)
C4_OverlapIsConflict ==
  [][\A c \in GuestIds, a \in RoomIds, s \in Dates, e \in Dates, p \in Prices :
       ( /\ customer_made_reservation(c, a, s, e, p)
         /\ p > 0 /\ e > s
         /\ CustomerExists(c) /\ ApartmentExists(a)
         /\ \E x \in CustomerReservations :
               x.apartment_id = a /\ Overlap(s, e, x.start_date, x.end_date) )
       => ( /\ lastOp'.ret = ALREADY_EXISTS
            /\ CustomerReservations' = CustomerReservations )]_vars

(* C5: a reserve call with price > 0, end > start and positive ids whose   *)
(* customer or apartment is not stored returns NOT_EXISTS and stores       *)
(* nothing, whatever reservations the apartment holds.                     *)
C5_MissingIsNotFound ==
  [][\A c \in GuestIds, a \in RoomIds, s \in Dates, e \in Dates, p \in Prices :
       ( /\ customer_made_reservation(c, a, s, e, p)
         /\ p > 0 /\ e > s /\ c > 0 /\ a > 0
         /\ (~CustomerExists(c) \/ ~ApartmentExists(a)) )
       => ( /\ lastOp'.ret = NOT_EXISTS
            /\ CustomerReservations' = CustomerReservations )]_vars

ReviewsOf(a) == {v \in CustomerReviews : v.apartment_id = a}

ReservationsOf(a) == {x \in CustomerReservations : x.apartment_id = a}

MeanRating(a) ==
  IF ReviewsOf(a) = {} THEN Frac(0, 1)
  ELSE Avg(ReviewsOf(a), [v \in ReviewsOf(a) |-> Frac(v.rating, 1)])

MeanPricePerNight(a) ==
  Avg(ReservationsOf(a),
      [x \in ReservationsOf(a) |-> Frac(x.total_price, x.end_date - x.start_date)])

(* C6: for every stored apartment, owned or not, get_apartment_rating is   *)
(* the mean of the ratings of the stored reviews on it, 0.0 with none.     *)
C6_RatingIsMean ==
  \A b \in Apartment :
     FracEq(get_apartment_rating(b.apartment_id), MeanRating(b.apartment_id))

(* C7: best_value_for_money returns an apartment with a stored reservation *)
(* and a stored review whose mean(rating) / mean(price per night) is       *)
(* maximal among such apartments, and bad_apartment when there is none.    *)
C7_BestValueAmongRated ==
  LET both == {b \in Apartment :
                 ReservationsOf(b.apartment_id) # {} /\ ReviewsOf(b.apartment_id) # {}}
      ratio(b) == FracDiv(MeanRating(b.apartment_id), MeanPricePerNight(b.apartment_id))
  IN \A x \in best_value_for_money :
        IF both = {} THEN x = bad_apartment
        ELSE /\ x \in both
             /\ \A b \in both : ~FracLess(ratio(x), ratio(b))

(* C8: a review call with positive ids and a rating in 1..10, for a pair   *)
(* with no review yet, returns NOT_EXISTS and stores nothing when no       *)
(* stored reservation of that customer on that apartment has end_date <=   *)
(* the review date, and otherwise returns OK and stores exactly the one    *)
(* new review row.                                                         *)
C8_ReviewNeedsCompletedStay ==
  [][lastOp'.op = "review" =>
     \A c \in {x \in CustomerIds : x > 0}, a \in {x \in ApartmentIds : x > 0} :
     (~\E v \in CustomerReviews : v.customer_id = c /\ v.apartment_id = a) =>
     \A d \in StoreDates, r \in {x \in Ratings : x >= 1 /\ x <= 10}, t \in Texts :
       ( /\ lastOp'.ret = customer_reviewed_apartment_ret(c, a, d, r, t)
         /\ customer_reviewed_apartment(c, a, d, r, t) )
       => IF \E x \in CustomerReservations :
               x.customer_id = c /\ x.apartment_id = a /\ x.end_date <= d
          THEN /\ lastOp'.ret = OK
               /\ CustomerReviews' = CustomerReviews \cup {ReviewRow(c, a, d, r, t)}
               /\ Cardinality(CustomerReviews') = Cardinality(CustomerReviews) + 1
          ELSE /\ lastOp'.ret = NOT_EXISTS
               /\ CustomerReviews' = CustomerReviews]_vars

(* a review was just accepted whose date is the end date of the stay *)
C8_Witness ==
  /\ lastOp = [op |-> "review", ret |-> OK]
  /\ \E v \in CustomerReviews, x \in CustomerReservations :
        /\ x.customer_id = v.customer_id
        /\ x.apartment_id = v.apartment_id
        /\ x.end_date = v.review_date

(* C9: there is at most one review per (customer, apartment), and a review *)
(* call with valid arguments and a completed reservation for a pair that   *)
(* already has a review returns ALREADY_EXISTS and leaves the reviews as   *)
(* they are.                                                               *)
C9_OneReviewPerPair ==
  /\ [](\A v, w \in CustomerReviews :
          (v.customer_id = w.customer_id /\ v.apartment_id = w.apartment_id) => v = w)
  /\ [][lastOp'.op = "review" =>
        \A c \in {x \in CustomerIds : x > 0}, a \in {x \in ApartmentIds : x > 0} :
        (\E v \in CustomerReviews : v.customer_id = c /\ v.apartment_id = a) =>
        \A d \in StoreDates, r \in {x \in Ratings : x >= 1 /\ x <= 10}, t \in Texts :
          ( /\ \E x \in CustomerReservations :
                  x.customer_id = c /\ x.apartment_id = a /\ x.end_date <= d
            /\ lastOp'.ret = customer_reviewed_apartment_ret(c, a, d, r, t)
            /\ customer_reviewed_apartment(c, a, d, r, t) )
          => ( /\ lastOp'.ret = ALREADY_EXISTS
               /\ CustomerReviews' = CustomerReviews )]_vars

(* a second review of a reviewed pair was just refused *)
C9_Witness ==
  /\ lastOp = [op |-> "review", ret |-> ALREADY_EXISTS]
  /\ CustomerReviews # {}
  /\ \A v \in CustomerReviews :
        \E x \in CustomerReservations :
           x.customer_id = v.customer_id /\ x.apartment_id = v.apartment_id

References(id_owner, id_apartment, id_customer) ==
  \/ \E x \in CustomerReservations :
        x.customer_id = id_customer \/ x.apartment_id = id_apartment
  \/ \E v \in CustomerReviews :
        v.customer_id = id_customer \/ v.apartment_id = id_apartment
  \/ \E y \in ApartmentOwners :
        y.owner_id = id_owner \/ y.apartment_id = id_apartment

(* C10: after a successful delete_owner, delete_apartment or               *)
(* delete_customer nothing stored references the deleted id, and in every  *)
(* reachable state every reservation and review references a stored        *)
(* customer and apartment and every ownership link a stored owner and      *)
(* apartment.                                                              *)
C10_CascadingDelete ==
  /\ []( /\ \A x \in CustomerReservations \cup CustomerReviews :
              CustomerExists(x.customer_id) /\ ApartmentExists(x.apartment_id)
         /\ \A y \in ApartmentOwners :
              OwnerExists(y.owner_id) /\ ApartmentExists(y.apartment_id) )
  /\ [][lastOp'.ret = OK =>
          /\ \A o \in OwnerIds :
               (lastOp'.op = "delete_owner" /\ delete_owner(o))
               => ~References(o, NULL, NULL)'
          /\ \A a \in ApartmentIds :
               (lastOp'.op = "delete_apartment" /\ delete_apartment(a))
               => ~References(NULL, a, NULL)'
          /\ \A c \in CustomerIds :
               (lastOp'.op = "delete_customer" /\ delete_customer(c))
               => ~References(NULL, NULL, c)' ]_vars

(* a customer was just deleted; an apartment and its owner's link remain *)
C10_Witness ==
  /\ lastOp = [op |-> "delete_customer", ret |-> OK]
  /\ Customer = {}
  /\ Apartment # {}
  /\ ApartmentOwners # {}

(* C11: get_all_location_owners returns exactly the owners whose owned     *)
(* apartments cover as many distinct (city, country) pairs as all the      *)
(* apartments of the store do, in every state, a store with owners and no  *)
(* apartment included.                                                     *)
CitiesOwnedBy(o) ==
  {<<b.city, b.country>> :
     b \in {y \in Apartment : OwnsRow(o, y.apartment_id) \in ApartmentOwners}}

C11_AllLocationOwners ==
  get_all_location_owners =
    {o \in Owner : Cardinality(CitiesOwnedBy(o.owner_id)) =
                   Cardinality({<<b.city, b.country>> : b \in Apartment})}

(* C12: get_apartment_recommendation(c) returns no apartment that c has a  *)
(* stored review of; every expected_rating it returns is in [1, 10] and is *)
(* the average, over the peers that reviewed the apartment, of the peer's  *)
(* rating times avg_ratio(c, peer) clamped to [1, 10], avg_ratio being the *)
(* mean of c's rating over the peer's on the apartments both reviewed.     *)
RatingOf(c, a) ==
  (CHOOSE v \in CustomerReviews : v.customer_id = c /\ v.apartment_id = a).rating

Reviewed(c) == {v.apartment_id : v \in {w \in CustomerReviews : w.customer_id = c}}

AvgRatio(c, p) ==
  LET common == Reviewed(c) \cap Reviewed(p)
  IN Avg(common, [a \in common |-> Frac(RatingOf(c, a), RatingOf(p, a))])

Clamp(x) ==
  IF FracLess(x, Frac(1, 1)) THEN Frac(1, 1)
  ELSE IF FracLess(Frac(10, 1), x) THEN Frac(10, 1)
  ELSE x

PeersOn(c, a) ==
  {p \in {v.customer_id : v \in CustomerReviews} :
     p # c /\ a \in Reviewed(p) /\ Reviewed(c) \cap Reviewed(p) # {}}

Expected(c, a) ==
  LET P == PeersOn(c, a)
  IN Avg(P, [p \in P |->
       Clamp(<<RatingOf(p, a) * AvgRatio(c, p)[1], AvgRatio(c, p)[2]>>)])

C12_RecommendationSound ==
  \A c \in ReviewerIds : \A x \in get_apartment_recommendation(c) :
     /\ x[1].apartment_id \notin Reviewed(c)
     /\ ~FracLess(x[2], Frac(1, 1))
     /\ ~FracLess(Frac(10, 1), x[2])
     /\ PeersOn(c, x[1].apartment_id) # {}
     /\ FracEq(x[2], Expected(c, x[1].apartment_id))

(* customer 1 is recommended an apartment whose product was clamped, with *)
(* an avg_ratio taken over two commonly reviewed apartments               *)
C12_Witness ==
  \E x \in get_apartment_recommendation(1) : \E p \in PeersOn(1, x[1].apartment_id) :
     /\ Cardinality(Reviewed(1) \cap Reviewed(p)) = 2
     /\ FracLess(Frac(10, 1),
                 <<RatingOf(p, x[1].apartment_id) * AvgRatio(1, p)[1], AvgRatio(1, p)[2]>>)
     /\ FracEq(x[2], Frac(10, 1))

(* C13: get_owner_rating(o) is the mean, over the apartments o owns, of    *)
(* the apartment's mean review rating, an owned apartment with no review   *)
(* counting 0; it is 0 for an owner with no apartment.                     *)
OwnedBy(o) == {x.apartment_id : x \in {y \in ApartmentOwners : y.owner_id = o}}

C13_OwnerRatingMeanOfMeans ==
  \A o \in LandlordIds :
     FracEq(get_owner_rating(o),
            IF OwnedBy(o) = {} THEN Frac(0, 1)
            ELSE Avg(OwnedBy(o), [a \in OwnedBy(o) |-> MeanRating(a)]))

(* owner 1 owns both apartments, one reviewed and one not: 10 and 0 give 5 *)
C13_Witness ==
  /\ OwnedBy(1) = FlatIds
  /\ ReviewsOf(1) # {} /\ ReviewsOf(2) = {}
  /\ FracEq(MeanRating(1), Frac(10, 1))
  /\ FracEq(get_owner_rating(1), Frac(5, 1))

(* C14: for every year, profit_per_month has exactly 12 entries, entry m   *)
(* for month m, whose profit is 15% of the sum of total_price over the     *)
(* reservations with end_date in month m of that year (0 with none); the   *)
(* profits add up to 15% of the total price of the year's reservations.    *)
RECURSIVE SumPrice(_)
SumPrice(S) ==
  IF S = {} THEN 0
  ELSE LET x == CHOOSE y \in S : TRUE IN x.total_price + SumPrice(S \ {x})

EndingIn(year, m) ==
  {r \in CustomerReservations : YearOf(r.end_date) = year /\ MonthOf(r.end_date) = m}

RECURSIVE SumEntries(_, _)
SumEntries(p, n) ==
  IF n = 0 THEN Frac(0, 1) ELSE FracNorm(FracAdd(p[n][2], SumEntries(p, n - 1)))

C14_ProfitPerMonth ==
  \A year \in LedgerYears :
     LET p == profit_per_month(year)
     IN /\ Len(p) = 12
        /\ \A m \in 1..12 :
              /\ p[m][1] = m
              /\ FracEq(p[m][2], Frac(15 * SumPrice(EndingIn(year, m)), 100))
        /\ FracEq(SumEntries(p, 12),
                  Frac(15 * SumPrice(UNION {EndingIn(year, m) : m \in 1..12}), 100))

(* one stay ended in December 2021 and two in January 2022 *)
C14_Witness ==
  /\ Cardinality(EndingIn(2021, 12)) = 1
  /\ Cardinality(EndingIn(2022, 1)) = 2
  /\ FracEq(profit_per_month(2022)[1][2], Frac(15 * 4, 100))
  /\ FracEq(profit_per_month(2021)[12][2], Frac(15 * 3, 100))

(* C15: get_top_customer returns the customer with the most stored         *)
(* reservations, the one with the smallest id among those with the most,   *)
(* and bad_customer exactly when no reservation is stored.                 *)
StaysOf(c) == {r \in CustomerReservations : r.customer_id = c}

C15_TopCustomer ==
  /\ (get_top_customer = bad_customer) <=> (CustomerReservations = {})
  /\ CustomerReservations # {} =>
       /\ get_top_customer \in Customer
       /\ \A r \in CustomerReservations :
             \/ Cardinality(StaysOf(r.customer_id)) <
                  Cardinality(StaysOf(get_top_customer.customer_id))
             \/ /\ Cardinality(StaysOf(r.customer_id)) =
                     Cardinality(StaysOf(get_top_customer.customer_id))
                /\ get_top_customer.customer_id <= r.customer_id

(* customer 1 and customer 2 hold one reservation each: customer 1 is top *)
C15_Witness ==
  /\ Cardinality(StaysOf(1)) = 1
  /\ Cardinality(StaysOf(2)) = 1
  /\ get_top_customer = CustomerRow(1, "n")

(* C16: a reserve call with price > 0 and end > start, for a stored        *)
(* customer and a stored apartment, returns OK and adds exactly the        *)
(* requested reservation, everything else unchanged, when no stored        *)
(* reservation [s, e) of the apartment has s < end and start < e; a stay   *)
(* that starts on another's end_date or ends on its start_date is taken.   *)
C16_FreeIntervalIsReserved ==
  [][lastOp'.op = "reserve" =>
       \A a \in {x \in RoomIds : ApartmentExists(x)} :
       \A s \in Dates :
       \A e \in {x \in Dates :
                  /\ x > s
                  /\ ~\E r \in CustomerReservations :
                        r.apartment_id = a /\ Overlap(r.start_date, r.end_date, s, x)} :
       \A c \in {x \in GuestIds : CustomerExists(x)} :
       \A p \in {x \in Prices : x > 0} :
          customer_made_reservation(c, a, s, e, p)
          => /\ lastOp'.ret = OK
             /\ ReservationRow(c, a, s, e, p) \notin CustomerReservations
             /\ CustomerReservations' =
                  CustomerReservations \cup {ReservationRow(c, a, s, e, p)}
             /\ UNCHANGED <<Owner, Apartment, Customer, CustomerReviews,
                            ApartmentOwners>>]_vars

(* [1, 2), [2, 3) and [3, 4) are stored, the last call returned OK *)
C16_Witness ==
  /\ lastOp = [op |-> "reserve", ret |-> OK]
  /\ \E r1 \in CustomerReservations, r2 \in CustomerReservations,
        r3 \in CustomerReservations :
        /\ r1.apartment_id = r2.apartment_id /\ r2.apartment_id = r3.apartment_id
        /\ r1.end_date = r2.start_date /\ r2.end_date = r3.start_date

(* C17, as stated: no update_review call moves the review_date of a stored *)
(* review back; a call on a stored review with a new date before the       *)
(* stored one returns NOT_EXISTS and changes nothing, whatever the rating, *)
(* and a call with a rating in 1..10 and a new date on or after the stored *)
(* one overwrites date, rating and text.                                   *)
C17_AsStated ==
  [][lastOp'.op = "update_review" =>
       /\ \A v \in CustomerReviews : \E w \in CustomerReviews' :
             /\ w.customer_id = v.customer_id /\ w.apartment_id = v.apartment_id
             /\ w.review_date >= v.review_date
       /\ \A v \in CustomerReviews : \A d \in ReviewDates, x \in ReviewInputs :
             customer_updated_review(v.customer_id, v.apartment_id, d, x[1], x[2])
             => /\ d < v.review_date
                   => lastOp'.ret = NOT_EXISTS /\ CustomerReviews' = CustomerReviews
                /\ (d >= v.review_date /\ x[1] >= MinRating /\ x[1] <= MaxRating)
                   => /\ lastOp'.ret = OK
                      /\ CustomerReviews' =
                           (CustomerReviews \ {v}) \cup
                           {ReviewRow(v.customer_id, v.apartment_id, d, x[1], x[2])}]_vars

(* C17, amended: no update_review call moves the review_date of a stored   *)
(* review back; a call with a rating in 1..10 on a stored review returns   *)
(* NOT_EXISTS and changes nothing when the new date is before the stored   *)
(* one, and otherwise returns OK and overwrites date, rating and text.     *)
C17_ReviewDateNeverDecreases ==
  [][lastOp'.op = "update_review" =>
       /\ \A v \in CustomerReviews : \E w \in CustomerReviews' :
             /\ w.customer_id = v.customer_id /\ w.apartment_id = v.apartment_id
             /\ w.review_date >= v.review_date
       /\ \A v \in CustomerReviews : \A d \in ReviewDates :
          \A x \in {y \in ReviewInputs : y[1] >= MinRating /\ y[1] <= MaxRating} :
             customer_updated_review(v.customer_id, v.apartment_id, d, x[1], x[2])
             => IF d < v.review_date
                THEN lastOp'.ret = NOT_EXISTS /\ CustomerReviews' = CustomerReviews
                ELSE /\ lastOp'.ret = OK
                     /\ CustomerReviews' =
                          (CustomerReviews \ {v}) \cup
                          {ReviewRow(v.customer_id, v.apartment_id, d, x[1], x[2])}]_vars

(* every review is dated on the later day, and an update was just refused: *)
(* it named the earlier day                                                *)
C17_Witness ==
  /\ lastOp = [op |-> "update_review", ret |-> NOT_EXISTS]
  /\ \A c \in TenantIds, a \in FlatIds : \E v \in CustomerReviews :
        /\ v.customer_id = c /\ v.apartment_id = a
        /\ \A d \in ReviewDates : d <= v.review_date

(* C18: update_review called twice in a row with the same arguments: when  *)
(* the first call returns OK, the second returns OK as well and leaves the *)
(* store as the first call left it, with one review row for the pair.      *)
C18_UpdateIsIdempotent ==
  [][(lastOp'.op = "update_review" /\ lastOp'.ret = OK) =>
       \A c \in TenantIds, a \in FlatIds, d \in ReviewDates, x \in ReviewInputs :
          customer_updated_review(c, a, d, x[1], x[2])
          => /\ customer_updated_review_ret(c, a, d, x[1], x[2])' = OK
             /\ customer_updated_review_rows(c, a, d, x[1], x[2])' = CustomerReviews'
             /\ Cardinality({v \in CustomerReviews' :
                               v.customer_id = c /\ v.apartment_id = a}) = 1]_vars

(* an update was just accepted, and a review carries the later day and the *)
(* second text                                                             *)
C18_Witness ==
  /\ lastOp = [op |-> "update_review", ret |-> OK]
  /\ \E v \in CustomerReviews :
        /\ v.review_text = "u"
        /\ \A d \in ReviewDates : d <= v.review_date

(* C19: every apartment has at most one ownership link; an                 *)
(* owner_owns_apartment call on an apartment that has an owner returns     *)
(* ALREADY_EXISTS whichever owner it names and leaves the links unchanged; *)
(* an owner_drops_apartment call naming an owner that is not the owner of  *)
(* the apartment returns NOT_EXISTS and removes nothing.                   *)
C19_OneOwnerPerApartment ==
  /\ [](\A x \in ApartmentOwners, y \in ApartmentOwners :
          x.apartment_id = y.apartment_id => x = y)
  /\ [][lastOp'.op = "owns" =>
          \A o \in LandlordIds, a \in FlatIds :
             ( /\ owner_owns_apartment(o, a)
               /\ \E x \in ApartmentOwners : x.apartment_id = a )
             => lastOp'.ret = ALREADY_EXISTS /\ ApartmentOwners' = ApartmentOwners]_vars
  /\ [][lastOp'.op = "drops" =>
          \A o \in LandlordIds, a \in FlatIds :
             ( /\ owner_drops_apartment(o, a)
               /\ ~\E x \in ApartmentOwners : x.apartment_id = a /\ x.owner_id = o )
             => lastOp'.ret = NOT_EXISTS /\ ApartmentOwners' = ApartmentOwners]_vars

(* both owners are stored, owner 1 owns both apartments, and a call to     *)
(* take one of them was just refused                                       *)
C19_Witness ==
  /\ lastOp = [op |-> "owns", ret |-> ALREADY_EXISTS]
  /\ OwnerExists(1) /\ OwnerExists(2)
  /\ ApartmentOwners = {OwnsRow(1, a) : a \in FlatIds}

====
